---------------------------- MODULE Spec2Model ----------------------------
(***************************************************************************)
(* Funding-rate arbitrage bot: valuation and decision engine               *)
(* (fr_arbitrage_bot.py).                                                  *)
(*                                                                         *)
(* Python floats are modelled as exact numbers.  A number is a record      *)
(*     [n |-> Int, d |-> Nat, g |-> Int]   standing for (g*10^9 + n) / d   *)
(* kept in lowest terms with d > 0.  The g part carries the 9e9 break-even *)
(* sentinel of be_fr_4h, which does not fit a machine integer of the       *)
(* checker; every other quantity has g = 0.  d = 0 is math.inf.            *)
(***************************************************************************)
EXTENDS Integers, Sequences, FiniteSets, TLC

(***************************************************************************)
(* Exact arithmetic                                                        *)
(***************************************************************************)
Abs(i) == IF i < 0 THEN -i ELSE i

RECURSIVE GCD(_, _)
GCD(a, b) == IF b = 0 THEN a ELSE GCD(b, a % b)

LCM(a, b) == (a \div GCD(a, b)) * b

Norm(n, d, g) ==
    LET k == GCD(GCD(Abs(n), Abs(g)), d)
    IN  [n |-> n \div k, d |-> d \div k, g |-> g \div k]

R(n, d) == Norm(n, d, 0)

Zero == R(0, 1)

PyInf == [n |-> 1, d |-> 0, g |-> 0]

RNeg(x) == [n |-> -x.n, d |-> x.d, g |-> -x.g]

RAdd(x, y) ==
    LET l == LCM(x.d, y.d)
        a == l \div x.d
        b == l \div y.d
    IN  Norm(x.n * a + y.n * b, l, x.g * a + y.g * b)

RSub(x, y) == RAdd(x, RNeg(y))

\* One of the factors is an ordinary number (g = 0).
RMul(x, y) ==
    LET k1 == GCD(GCD(Abs(x.n), Abs(x.g)), y.d)
        k2 == GCD(GCD(Abs(y.n), Abs(y.g)), x.d)
        xn == x.n \div k1
        xg == x.g \div k1
        yn == y.n \div k2
        yg == y.g \div k2
    IN  Norm(xn * yn, (x.d \div k2) * (y.d \div k1), xg * yn + xn * yg)

\* y is an ordinary number other than zero.
RInv(y) == IF y.n < 0 THEN [n |-> -y.d, d |-> -y.n, g |-> 0]
                      ELSE [n |-> y.d, d |-> y.n, g |-> 0]

RDiv(x, y) == RMul(x, RInv(y))

RSign(x) == IF x.g # 0 THEN (IF x.g > 0 THEN 1 ELSE -1)
            ELSE IF x.n > 0 THEN 1 ELSE IF x.n < 0 THEN -1 ELSE 0

RLt(x, y) == RSign(RSub(x, y)) < 0
RLe(x, y) == RSign(RSub(x, y)) <= 0
RGt(x, y) == RLt(y, x)
RGe(x, y) == RLe(y, x)

\* Python's max(a, b) and min(a, b): the first argument wins a tie.
RMax(a, b) == IF RGt(b, a) THEN b ELSE a
RMin(a, b) == IF RLt(b, a) THEN b ELSE a

RAbs(x) == IF RSign(x) < 0 THEN RNeg(x) ELSE x

\* math.ceil and floor of an ordinary number, as integers.
RCeil(x) == -((-x.n) \div x.d)
RFloor(x) == x.n \div x.d


(***************************************************************************)
(* Exchanges, market data served by the adapters, caller inputs            *)
(***************************************************************************)
Exchanges == {"Bybit", "Bitget"}

Pair(bybit, bitget) == [e \in Exchanges |-> IF e = "Bybit" THEN bybit ELSE bitget]

\* Funding rates (4h equivalent) the two adapters can report, in 1/10000:
\* equal, either side higher by 5, one side higher by 30.
FrValues == {Pair(1, 1), Pair(6, 1), Pair(1, 6), Pair(36, 6)}

\* Mark prices (USDT) and lot steps of round_qty_to_lot (tenths of a base
\* unit) of the two adapters: equal prices, a price gap, lots that round a
\* leg's quantity to zero.
MarketValues ==
    { [price |-> Pair(100, 100), lot |-> Pair(1, 1)],
      [price |-> Pair(101, 100), lot |-> Pair(1, 1)],
      [price |-> Pair(100, 100), lot |-> Pair(10, 10)],
      [price |-> Pair(101, 100), lot |-> Pair(1, 10)] }

\* The caller's fee and slippage inputs per exchange, by profile.
FeeProfiles == {"zero", "std"}

TakerFee(profile, ex) ==
    IF profile = "zero" THEN Zero
    ELSE IF ex = "Bybit" THEN R(55, 100000) ELSE R(60, 100000)

SlipBps(profile, ex) == IF profile = "zero" THEN Zero ELSE R(6, 1)

\* Settlement interval lengths (hours) a caller passes.
IntervalValues == {-4, 0, 4, 8}

\* Keep-margin thresholds (bp) a caller passes.
KeepMarginValues == {5, 10}

\* Side notionals (USDT) a caller passes.
NotionalValues == {0, 50}

\* Timestamps are whole hours.  A position is entered at hour 0 and looked
\* at before, at and after its entry, up to MaxPeriods 4h periods later.
MaxPeriods == 2
EntryTsValues == {0}
NowValues == {-4, 0, 2} \cup {4 * k : k \in 1..MaxPeriods}

(***************************************************************************)
(* Calculation utilities                                                   *)
(***************************************************************************)
est_vwap_slippage_cost(notional, vwap_slippage_bps) ==
    RMul(notional, RDiv(vwap_slippage_bps, R(10000, 1)))

BE_SENTINEL == [n |-> 0, d |-> 1, g |-> 9]

be_fr_4h(fees_total_usdt, notional_total_usdt) ==
    IF RLe(notional_total_usdt, Zero)
    THEN BE_SENTINEL
    ELSE RDiv(fees_total_usdt, notional_total_usdt)

total_fees_with_slippage(leg_a, leg_b) ==
    LET fees == RMul(RAdd(RMul(leg_a.notional, leg_a.fee_rate_taker),
                          RMul(leg_b.notional, leg_b.fee_rate_taker)), R(2, 1))
        slip_a == RMul(est_vwap_slippage_cost(leg_a.notional, leg_a.vwap_slippage_est_bps), R(2, 1))
        slip_b == RMul(est_vwap_slippage_cost(leg_b.notional, leg_b.vwap_slippage_est_bps), R(2, 1))
    IN  RAdd(RAdd(fees, slip_a), slip_b)

estimate_entry_basis_cost_usdt_signed(short_px_ref, long_px_ref, qty_short_base, qty_long_base, slip_bps_short, slip_bps_long) ==
    LET exp_sell == RMul(short_px_ref, RSub(R(1, 1), RDiv(slip_bps_short, R(10000, 1))))
        exp_buy  == RMul(long_px_ref, RAdd(R(1, 1), RDiv(slip_bps_long, R(10000, 1))))
        matched_qty == RMax(Zero, RMin(qty_short_base, qty_long_base))
        gap == RSub(exp_buy, exp_sell)
    IN  RMul(gap, matched_qty)

estimate_entry_basis_cost_usdt(short_px_ref, long_px_ref, qty_short_base, qty_long_base, slip_bps_short, slip_bps_long) ==
    LET exp_sell == RMul(short_px_ref, RSub(R(1, 1), RDiv(slip_bps_short, R(10000, 1))))
        exp_buy  == RMul(long_px_ref, RAdd(R(1, 1), RDiv(slip_bps_long, R(10000, 1))))
        matched_qty == RMax(Zero, RMin(qty_short_base, qty_long_base))
        gap == RSub(exp_buy, exp_sell)
    IN  RMul(RMax(Zero, gap), matched_qty)

\* entry_ts and now are hours; (now - entry_ts).total_seconds() / 3600.0 is
\* their difference.
estimate_pnl_now_unclamped(notional_total, diff_now_4h, entry_ts, now, leg_fees_total, entry_basis_cost_usdt) ==
    LET periods == RDiv(R(now - entry_ts, 1), R(4, 1))
        gross == RMul(RMul(notional_total, diff_now_4h), periods)
    IN  RSub(gross, RAdd(leg_fees_total, entry_basis_cost_usdt))

estimate_pnl_now(notional_total, diff_now_4h, entry_ts, now, leg_fees_total, entry_basis_cost_usdt) ==
    LET periods == RMax(Zero, RDiv(R(now - entry_ts, 1), R(4, 1)))
        gross == RMul(RMul(notional_total, diff_now_4h), periods)
    IN  RSub(gross, RAdd(leg_fees_total, entry_basis_cost_usdt))

(***************************************************************************)
(* Adapters (the registry and what the registered adapters answer)         *)
(***************************************************************************)
VARIABLES
    registry,   \* _EXCHANGE_REGISTRY: the names with a registered adapter
    market,     \* what the adapters report: fr, price, lot per exchange
    position,   \* the stored Position: <<>> or <<Position>>
    out         \* the last call of the engine: its arguments and its outcome

\* The Discord bot (fr_arbitrage_discord_bot.py).
VARIABLES
    liq,            \* the last call of evaluate_liquidity_and_rank
    now_min,        \* now_utc(), in whole minutes
    positions_file, \* POSITIONS_FILE: the position keys on record
    cooldown_file,  \* COOLDOWN_FILE: position key -> time of its last APR alert
    next_funding,   \* last funding time + interval, as the exchange reports it
    scan,           \* the scan_positions run in progress, if any
    sent,           \* what has been posted to the channel so far
    reply,          \* the answer to the last button press
    http,           \* the http_get call in progress, or the last one
    lots            \* the last call of generate_dynamic_lot_options

engineVars == <<registry, market, position, out>>

botVars == <<now_min, positions_file, cooldown_file, next_funding, scan, sent, reply>>

utilVars == <<http, lots>>

vars == <<registry, market, position, out, liq, now_min, positions_file, cooldown_file, next_funding, scan, sent, reply, http, lots>>

fetch_fr_4h(ex) == R(market.fr[ex], 10000)

fetch_mark_price(ex) == R(market.price[ex], 1)

\* An adapter rounds a quantity down to a whole number of lots.
round_qty_to_lot(ex, qty) ==
    LET step == R(market.lot[ex], 10)
    IN  RMul(R(RFloor(RDiv(qty, step)), 1), step)

Leg(exchange, side, notional, qty, mark_price, fee_rate_taker, vwap_slippage_est_bps) ==
    [exchange |-> exchange, side |-> side, notional |-> notional, qty |-> qty,
     mark_price |-> mark_price, fee_rate_taker |-> fee_rate_taker,
     vwap_slippage_est_bps |-> vwap_slippage_est_bps]

(***************************************************************************)
(* Outcomes of a call: a returned value, or a raised exception with the    *)
(* source line that raised it and the adapter calls made before it.        *)
(***************************************************************************)
Returned(v, calls) ==
    [kind |-> "ok", exc |-> "", line |-> 0, calls |-> calls, val |-> v]

\* leg_h and leg_l, the two Leg values evaluate_candidate builds on its way,
\* are kept beside the EvalResult it returns.
Raised(exc, line, calls) ==
    [kind |-> "raise", exc |-> exc, line |-> line, calls |-> calls, val |-> <<>>]

(***************************************************************************)
(* Candidate evaluation                                                    *)
(***************************************************************************)
\* annual_mult = (24.0 / interval_h) * 365.0, for interval_h other than 0.
annual_mult_of(interval_h) == RMul(RDiv(R(24, 1), interval_h), R(365, 1))

apr_gross_of(diff_per_int, annual_mult) ==
    RMax(Zero, RMul(RMul(diff_per_int, annual_mult), R(100, 1)))

apr_net_of_added(diff_per_int, be_per_int, annual_mult) ==
    RMax(Zero, RMul(RMul(RAdd(diff_per_int, be_per_int), annual_mult), R(100, 1)))

apr_net_of(diff_per_int, be_per_int, annual_mult) ==
    RMax(Zero, RMul(RMul(RSub(diff_per_int, be_per_int), annual_mult), R(100, 1)))

\* math.ceil of a finite float, an int.
py_ceil_floor(x) == RFloor(x)

py_ceil(x) == RCeil(x)

\* int(x) of a float x truncates; of an infinity it raises OverflowError.
\* (int() of the int that math.ceil returns is that int.)
py_int(x) ==
    IF x.d = 0 THEN Raised("OverflowError", 0, 0)
    ELSE Returned(IF x.n < 0 THEN RCeil(x) ELSE RFloor(x), 0)

\* int(ceil(total_cost / (notional_total * diff_per_int))) if diff_per_int > 0
\* else int(inf).  A float division by zero raises ZeroDivisionError.
n_min_of(total_cost, notional_total, diff_per_int) ==
    IF RGt(diff_per_int, Zero)
    THEN LET yield == RMul(notional_total, diff_per_int)
         IN  IF yield = Zero
             THEN Raised("ZeroDivisionError", 0, 0)
             ELSE Returned(py_ceil(RDiv(total_cost, yield)), 0)
    ELSE py_int(PyInf)

\* The verdict of a margin against the keep threshold.
decide_strict(margin_bps, keep_margin_bp) ==
    IF RGt(margin_bps, keep_margin_bp) THEN "keep"
    ELSE IF RGe(margin_bps, Zero) THEN "watch"
    ELSE "close"

decide(margin_bps, keep_margin_bp) ==
    IF RGe(margin_bps, keep_margin_bp) THEN "keep"
    ELSE IF RGe(margin_bps, Zero) THEN "watch"
    ELSE "close"

margin_bps_of(diff_per_int, be_per_int) ==
    RMul(RSub(diff_per_int, be_per_int), R(10000, 1))

evaluate_candidate(a) ==
    IF a.ex_a \notin registry THEN Raised("ValueError", 40, 0)
    ELSE IF a.ex_b \notin registry THEN Raised("ValueError", 40, 1)
    ELSE
    LET fr_a_4h == fetch_fr_4h(a.ex_a)
        fr_b_4h == fetch_fr_4h(a.ex_b)
        a_high == RGe(fr_a_4h, fr_b_4h)
        high_fr_ex == IF a_high THEN a.ex_a ELSE a.ex_b
        low_fr_ex  == IF a_high THEN a.ex_b ELSE a.ex_a
        fr_high_4h == IF a_high THEN fr_a_4h ELSE fr_b_4h
        fr_low_4h  == IF a_high THEN fr_b_4h ELSE fr_a_4h
        fee_high   == IF a_high THEN a.fee_taker_a ELSE a.fee_taker_b
        fee_low    == IF a_high THEN a.fee_taker_b ELSE a.fee_taker_a
        slip_high  == IF a_high THEN a.slip_bps_a ELSE a.slip_bps_b
        slip_low   == IF a_high THEN a.slip_bps_b ELSE a.slip_bps_a
        price_high == fetch_mark_price(high_fr_ex)
        price_low  == fetch_mark_price(low_fr_ex)
    IN
    IF price_high = Zero THEN Raised("ZeroDivisionError", 246, 4)
    ELSE IF price_low = Zero THEN Raised("ZeroDivisionError", 247, 5)
    ELSE
    LET qty_high == round_qty_to_lot(high_fr_ex, RMax(Zero, RDiv(a.side_notional_usdt, price_high)))
        qty_low  == round_qty_to_lot(low_fr_ex, RMax(Zero, RDiv(a.side_notional_usdt, price_low)))
        leg_h == Leg(high_fr_ex, "short", RMul(qty_high, price_high), qty_high, price_high, fee_high, slip_high)
        leg_l == Leg(low_fr_ex, "long", RMul(qty_low, price_low), qty_low, price_low, fee_low, slip_low)
        fees_total == total_fees_with_slippage(leg_h, leg_l)
        entry_basis_cost == estimate_entry_basis_cost_usdt(price_high, price_low, qty_high, qty_low, slip_high, slip_low)
        notional_total == RAdd(leg_h.notional, leg_l.notional)
        be_4h == be_fr_4h(RAdd(fees_total, entry_basis_cost), notional_total)
        be_per_int == RMul(be_4h, RDiv(a.interval_h, R(4, 1)))
        diff_4h == RAbs(RSub(fr_high_4h, fr_low_4h))
        diff_per_int == RMul(diff_4h, RDiv(a.interval_h, R(4, 1)))
    IN
    IF a.interval_h = Zero THEN Raised("ZeroDivisionError", 270, 6)
    ELSE
    LET annual_mult == annual_mult_of(a.interval_h)
        n_min == n_min_of(RAdd(fees_total, entry_basis_cost), notional_total, diff_per_int)
        margin_bps == margin_bps_of(diff_per_int, be_per_int)
    IN
    IF n_min.kind = "raise" THEN Raised(n_min.exc, 273, 6)
    ELSE Returned(
        [high_fr_ex |-> high_fr_ex,
         low_fr_ex |-> low_fr_ex,
         interval_h |-> a.interval_h,
         diff_per_int |-> diff_per_int,
         diff_4h |-> diff_4h,
         be_per_int |-> be_per_int,
         be_4h |-> be_4h,
         apr_gross_pct |-> apr_gross_of(diff_per_int, annual_mult),
         apr_net_pct |-> apr_net_of(diff_per_int, be_per_int, annual_mult),
         n_min |-> n_min.val,
         notional_total |-> notional_total,
         fees_total_usdt |-> fees_total,
         entry_basis_cost_usdt |-> entry_basis_cost,
         decision |-> decide(margin_bps, a.keep_margin_bp)], 6)
         @@ [leg_h |-> leg_h, leg_l |-> leg_l]

(***************************************************************************)
(* Position: creation at entry, re-evaluation later                        *)
(***************************************************************************)
\* Python's `x or default` for an Optional[float]: None is <<>>, a value v is
\* <<v>>; None and 0.0 are both falsy.
py_or(opt, default) == IF opt = <<>> \/ opt[1] = Zero THEN default ELSE opt[1]

make_position_from_eval(ev, entry_ts, next_funding_ts, leverage, fee_taker_high, fee_taker_low, slip_bps_high, slip_bps_low) ==
    LET leg_high == Leg(ev.high_fr_ex, "short", RDiv(ev.notional_total, R(2, 1)), Zero, Zero,
                        py_or(fee_taker_high, R(55, 100000)), py_or(slip_bps_high, R(6, 1)))
        leg_low  == Leg(ev.low_fr_ex, "long", RDiv(ev.notional_total, R(2, 1)), Zero, Zero,
                        py_or(fee_taker_low, R(60, 100000)), py_or(slip_bps_low, R(6, 1)))
    IN  [leg_a |-> leg_high,
         leg_b |-> leg_low,
         entry_ts |-> entry_ts,
         entry_diff_4h |-> ev.diff_4h,
         leverage |-> leverage,
         next_funding_ts |-> next_funding_ts,
         interval_h |-> ev.interval_h,
         fees_total_usdt |-> ev.fees_total_usdt,
         entry_basis_cost_usdt |-> ev.entry_basis_cost_usdt,
         notional_total |-> ev.notional_total,
         entry_be_per_int |-> ev.be_per_int,
         entry_n_min |-> ev.n_min]

\* The 4h break-even of a held position recomputed from its legs' rates.
be_4h_now_from_legs(p) ==
    be_fr_4h(RAdd(total_fees_with_slippage(p.leg_a, p.leg_b), p.entry_basis_cost_usdt), p.notional_total)

\* The 4h break-even of a held position, from the totals stored at entry.
be_4h_now_of(p) ==
    be_fr_4h(RAdd(p.fees_total_usdt, p.entry_basis_cost_usdt), p.notional_total)

\* The leg whose live rate is lower taken as the short one.
leg_a_is_short_inverted(fr_a_4h_now, fr_b_4h_now) == RLt(fr_a_4h_now, fr_b_4h_now)

\* The leg whose live rate is higher is the short one; leg_a on a tie.
leg_a_is_short(fr_a_4h_now, fr_b_4h_now) == RGe(fr_a_4h_now, fr_b_4h_now)

\* keep_margin_bp is a parameter of evaluate_position_now that its body never
\* reads.
evaluate_position_now(p, now_ts, keep_margin_bp) ==
    LET ex_a == p.leg_a.exchange
        ex_b == p.leg_b.exchange
    IN
    IF ex_a \notin registry THEN Raised("ValueError", 40, 0)
    ELSE IF ex_b \notin registry THEN Raised("ValueError", 40, 1)
    ELSE
    LET fr_a_4h_now == fetch_fr_4h(ex_a)
        fr_b_4h_now == fetch_fr_4h(ex_b)
        a_high == leg_a_is_short(fr_a_4h_now, fr_b_4h_now)
        short_ex == IF a_high THEN ex_a ELSE ex_b
        long_ex  == IF a_high THEN ex_b ELSE ex_a
        fr_high_4h_now == IF a_high THEN fr_a_4h_now ELSE fr_b_4h_now
        fr_low_4h_now  == IF a_high THEN fr_b_4h_now ELSE fr_a_4h_now
        diff_4h_now == RAbs(RSub(fr_high_4h_now, fr_low_4h_now))
        diff_per_int_now == RMul(diff_4h_now, RDiv(p.interval_h, R(4, 1)))
        notional_total == p.notional_total
        fees_total == p.fees_total_usdt
        basis_cost == p.entry_basis_cost_usdt
        be_4h_now == be_4h_now_of(p)
        be_per_int_now == RMul(be_4h_now, RDiv(p.interval_h, R(4, 1)))
    IN
    IF p.interval_h = Zero THEN Raised("ZeroDivisionError", 369, 2)
    ELSE
    LET annual_mult == annual_mult_of(p.interval_h)
        apr_gross_now_pct == apr_gross_of(diff_per_int_now, annual_mult)
        apr_net_now_pct == apr_net_of(diff_per_int_now, be_per_int_now, annual_mult)
        n_min_now == n_min_of(RAdd(fees_total, basis_cost), notional_total, diff_per_int_now)
        est_pnl == estimate_pnl_now(notional_total, diff_4h_now, p.entry_ts, now_ts, fees_total, basis_cost)
        diff_per_int_entry == RMul(p.entry_diff_4h, RDiv(p.interval_h, R(4, 1)))
        apr_gross_entry_pct == apr_gross_of(diff_per_int_entry, annual_mult)
        n_min_entry == p.entry_n_min
    IN
    IF n_min_now.kind = "raise" THEN Raised(n_min_now.exc, 372, 2)
    ELSE Returned(
        [short_ex |-> short_ex,
         long_ex |-> long_ex,
         interval_h |-> p.interval_h,
         diff_per_int_now |-> diff_per_int_now,
         diff_4h_now |-> diff_4h_now,
         be_per_int_now |-> be_per_int_now,
         be_4h_now |-> be_4h_now,
         apr_gross_now_pct |-> apr_gross_now_pct,
         apr_net_now_pct |-> apr_net_now_pct,
         n_min_now |-> n_min_now.val,
         diff_per_int_entry |-> diff_per_int_entry,
         apr_gross_entry_pct |-> apr_gross_entry_pct,
         n_min_entry |-> n_min_entry,
         diff_delta_bp |-> RMul(RSub(diff_per_int_now, diff_per_int_entry), R(10000, 1)),
         apr_gross_delta_pct |-> RSub(apr_gross_now_pct, apr_gross_entry_pct),
         n_min_delta |-> n_min_now.val - n_min_entry,
         est_pnl_usdt |-> est_pnl,
         entry_ts |-> p.entry_ts,
         now_ts |-> now_ts,
         entry_basis_cost_usdt |-> basis_cost], 2)

\* The verdict line of build_position_notification.
notification_decision(stat) ==
    LET margin_bp_now == RMul(RSub(stat.diff_per_int_now, stat.be_per_int_now), R(10000, 1))
    IN  IF RGe(margin_bp_now, R(5, 1)) THEN "KEEP"
        ELSE IF RGe(margin_bp_now, Zero) THEN "WATCH"
        ELSE "CLOSE"

(***************************************************************************)
(* The Discord bot: liquidity scoring                                      *)
(***************************************************************************)
calc_apr(diff_fraction, interval_min) ==
    LET per_day == RDiv(R(1440, 1), R(interval_min, 1))
    IN  RMul(RMul(RMul(diff_fraction, per_day), R(365, 1)), R(100, 1))

VOL_TIERS == <<2000000000, 1000000000, 300000000, 100000000>>

BBO_TIERS == <<1000000, 500000, 200000, 100000>>

GAP_BPS_PENALTY == <<<<15, -2>>, <<5, -1>>>>

APR_BONUS == <<<<200, 1>>, <<100, 0>>, <<80, -1>>, <<0, -2>>>>

\* Tiers read the wrong way round: the deepest market scores lowest.
tier_score_descending(x, tiers) ==
    IF x >= tiers[1] THEN 0 ELSE IF x >= tiers[2] THEN 1
    ELSE IF x >= tiers[3] THEN 2 ELSE IF x >= tiers[4] THEN 3 ELSE 4

tier_score(x, tiers) ==
    IF x >= tiers[1] THEN 4 ELSE IF x >= tiers[2] THEN 3
    ELSE IF x >= tiers[3] THEN 2 ELSE IF x >= tiers[4] THEN 1 ELSE 0

\* A penalty that already applies at the threshold.
RECURSIVE gap_loop_inclusive(_, _, _)
gap_loop_inclusive(gap_bps, table, i) ==
    IF i > Len(table) THEN 0
    ELSE IF RGe(gap_bps, R(table[i][1], 1)) THEN table[i][2]
    ELSE gap_loop_inclusive(gap_bps, table, i + 1)

\* The loop over a penalty table, entered at row i with gap_pen = 0.
RECURSIVE gap_loop(_, _, _)
gap_loop(gap_bps, table, i) ==
    IF i > Len(table) THEN 0
    ELSE IF RGt(gap_bps, R(table[i][1], 1)) THEN table[i][2]
    ELSE gap_loop(gap_bps, table, i + 1)

\* The loop over APR_BONUS, entered at row i with the adjustment so far.
RECURSIVE apr_loop(_, _, _)
apr_loop(apr, i, apr_adj) ==
    IF i > Len(APR_BONUS) THEN apr_adj
    ELSE IF RGe(apr, R(APR_BONUS[i][1], 1)) THEN APR_BONUS[i][2]
    ELSE IF RLt(apr, R(80, 1)) THEN apr_loop(apr, i + 1, -2)
    ELSE apr_loop(apr, i + 1, apr_adj)

IMin(a, b) == IF a <= b THEN a ELSE b

\* max(x, 1e-9) for a price x: a positive x with a denominator below 10^9 is
\* above 1e-9, anything not positive is below it.
max_with_floor(x) ==
    IF RSign(x) > 0 /\ x.d < 1000000000 THEN x ELSE R(1, 1000000000)

rank_of(total) ==
    IF total >= 7 THEN "S" ELSE IF total >= 5 THEN "A"
    ELSE IF total >= 3 THEN "B" ELSE IF total >= 1 THEN "C" ELSE "D"

\* a: what the public APIs answer for the symbol and the two exchanges.
evaluate_liquidity_and_rank(a) ==
    LET diff == RMax(Zero, RSub(a.fr_s, a.fr_l))
        apr == calc_apr(diff, a.iv)
        gap_bps == RMul(RDiv(RAbs(RSub(a.px_s, a.px_l)),
                             max_with_floor(RMax(a.px_s, a.px_l))), R(10000, 1))
        vol_score == IMin(tier_score(a.vol_s, VOL_TIERS), tier_score(a.vol_l, VOL_TIERS))
        bbo_score == IMin(tier_score(IMin(a.ask_s, a.bid_s), BBO_TIERS),
                          tier_score(IMin(a.ask_l, a.bid_l), BBO_TIERS))
        gap_pen == gap_loop(gap_bps, GAP_BPS_PENALTY, 1)
        apr_adj == apr_loop(apr, 1, 0)
        total == vol_score + bbo_score + gap_pen + apr_adj
    IN  [rank |-> rank_of(total),
         score |-> total,
         metrics |-> [apr |-> apr, diff |-> diff, iv_min |-> a.iv,
                      vol_short |-> a.vol_s, vol_long |-> a.vol_l,
                      bbo_short_min |-> IMin(a.ask_s, a.bid_s),
                      bbo_long_min |-> IMin(a.ask_l, a.bid_l),
                      gap_bps |-> gap_bps]]

(***************************************************************************)
(* The Discord bot: its state before anything has happened                 *)
(***************************************************************************)
\* The position keys on record, in the order they were registered.
PosKeys == <<"BTCUSDT|Bybit-Short|Bitget-Long", "ETHUSDT|Bitget-Short|Bybit-Long">>

Keys == {PosKeys[i] : i \in 1..Len(PosKeys)}

NoRank == [args |-> <<>>, res |-> <<>>]

EmptyDict == [k \in {} |-> 0]

\* No scan_positions run in progress; due: the loop's timer has fired.
ScanIdle == [pc |-> "idle", due |-> TRUE, keys |-> <<>>, idx |-> 0, cooldown |-> EmptyDict, apr |-> Zero]

\* Per key: the times of its APR alerts (the last two), the reminders posted
\* for the funding event ahead; and the last message posted.
NothingSent ==
    [alerts |-> [k \in Keys |-> <<>>],
     reminders |-> [k \in Keys |-> 0],
     views |-> {},
     last |-> <<>>]

NoReply == [key |-> "", text |-> ""]

BotAtRest ==
    /\ now_min = 0
    /\ positions_file = {}
    /\ cooldown_file = EmptyDict
    /\ next_funding = 0
    /\ scan = ScanIdle
    /\ sent = NothingSent
    /\ reply = NoReply

\* No http_get call and no lot-option call has been made.
NoResult == [kind |-> "none", val |-> ""]

HttpIdle == [pc |-> "idle", max_retries |-> 3, i |-> 0, seen |-> <<>>, res |-> NoResult]

NoLots == [args |-> <<>>, res |-> <<>>]

UtilAtRest ==
    /\ http = HttpIdle
    /\ lots = NoLots

(***************************************************************************)
(* The state machine                                                       *)
(***************************************************************************)
NoCall == [op |-> "none", args |-> <<>>, res |-> Raised("", 0, 0), shown |-> ""]

Call(op, args, res) == [op |-> op, args |-> args, res |-> res, shown |-> ""]

\* The optional fee and slippage overrides a caller of make_position_from_eval
\* passes, by profile: none given, zeros given, values given.
OverrideProfiles == {"none", "zero", "given"}

Override(profile, v) ==
    IF profile = "none" THEN <<>> ELSE IF profile = "zero" THEN <<Zero>> ELSE <<v>>

Init ==
    /\ registry = {}
    /\ \E m \in MarketValues :
          market = [fr |-> Pair(1, 1), price |-> m.price, lot |-> m.lot]
    /\ position = <<>>
    /\ out = NoCall
    /\ liq = NoRank
    /\ BotAtRest
    /\ UtilAtRest

\* register_exchange_adapter(adapter), for an adapter with a name.
RegisterExchangeAdapter ==
    \E name \in Exchanges :
        /\ registry' = registry \cup {name}
        /\ UNCHANGED <<market, position, out>>
        /\ UNCHANGED <<liq, botVars, utilVars>>

\* The exchanges publish new funding rates; the last result is of the old
\* rates and is dropped.
FundingRatesChange ==
    \E f \in FrValues :
        /\ f # market.fr
        /\ market' = [market EXCEPT !.fr = f]
        /\ out' = NoCall
        /\ UNCHANGED <<registry, position>>
        /\ UNCHANGED <<liq, botVars, utilVars>>

\* Candidates are evaluated one at a time until one is accepted.
EvaluateCandidate ==
    /\ position = <<>>
    /\ out.op = "none"
    /\ \E ex_a \in Exchanges, ex_b \in Exchanges, sn \in NotionalValues,
       fp \in FeeProfiles, ih \in IntervalValues, km \in KeepMarginValues :
        /\ ex_a # ex_b
        /\ LET a == [ex_a |-> ex_a, ex_b |-> ex_b,
                     side_notional_usdt |-> R(sn, 1),
                     fee_taker_a |-> TakerFee(fp, ex_a), fee_taker_b |-> TakerFee(fp, ex_b),
                     slip_bps_a |-> SlipBps(fp, ex_a), slip_bps_b |-> SlipBps(fp, ex_b),
                     interval_h |-> R(ih, 1), keep_margin_bp |-> R(km, 1)]
           IN  out' = Call("evaluate_candidate", a, evaluate_candidate(a))
    /\ UNCHANGED <<registry, market, position>>
    /\ UNCHANGED <<liq, botVars, utilVars>>

\* The candidate just evaluated is not taken.
DiscardCandidate ==
    /\ out.op = "evaluate_candidate"
    /\ out' = NoCall
    /\ UNCHANGED <<registry, market, position>>
    /\ UNCHANGED <<liq, botVars, utilVars>>

\* The candidate just evaluated is accepted: its EvalResult becomes the Position.
MakePositionFromEval ==
    /\ out.op = "evaluate_candidate"
    /\ out.res.kind = "ok"
    /\ \E op \in OverrideProfiles, entry_ts \in EntryTsValues :
        LET a == [ev |-> out.res.val, entry_ts |-> entry_ts,
                  fee_taker_high |-> Override(op, R(7, 10000)),
                  fee_taker_low |-> Override(op, R(7, 10000)),
                  slip_bps_high |-> Override(op, R(3, 1)),
                  slip_bps_low |-> Override(op, R(3, 1))]
        IN  /\ position' = <<make_position_from_eval(a.ev, a.entry_ts, a.entry_ts + 4, R(1, 1),
                                  a.fee_taker_high, a.fee_taker_low,
                                  a.slip_bps_high, a.slip_bps_low)>>
            /\ out' = Call("make_position_from_eval", a, Returned(position'[1], 0))
    /\ UNCHANGED <<registry, market>>
    /\ UNCHANGED <<liq, botVars, utilVars>>

\* A re-evaluation that would take its own n_min as the position's entry value.
EvaluatePositionNowRebasing ==
    /\ position # <<>>
    /\ \E now \in NowValues, km \in KeepMarginValues :
        LET res == evaluate_position_now(position[1], now, R(km, 1))
        IN  /\ out' = Call("evaluate_position_now",
                           [position |-> position[1], now_ts |-> now, keep_margin_bp |-> R(km, 1)],
                           res)
            /\ position' = IF res.kind = "ok"
                            THEN <<[position[1] EXCEPT !.entry_n_min = res.val.n_min_now]>>
                            ELSE position
    /\ UNCHANGED <<registry, market>>
    /\ UNCHANGED <<liq, botVars, utilVars>>

\* evaluate_position_now(position, now_ts, keep_margin_bp) on the held position.
EvaluatePositionNow ==
    /\ position # <<>>
    /\ \E now \in NowValues, km \in KeepMarginValues :
          out' = Call("evaluate_position_now",
                      [position |-> position[1], now_ts |-> now, keep_margin_bp |-> R(km, 1)],
                      evaluate_position_now(position[1], now, R(km, 1)))
    /\ UNCHANGED <<registry, market, position>>
    /\ UNCHANGED <<liq, botVars, utilVars>>

\* The status just computed is formatted for the operator.
BuildPositionNotification ==
    /\ out.op = "evaluate_position_now"
    /\ out.res.kind = "ok"
    /\ out.shown = ""
    /\ out' = [out EXCEPT !.shown = notification_decision(out.res.val)]
    /\ UNCHANGED <<registry, market, position>>
    /\ UNCHANGED <<liq, botVars, utilVars>>

\* The operator closes the position; the next candidates are looked at.
ClosePosition ==
    /\ position # <<>>
    /\ position' = <<>>
    /\ out' = NoCall
    /\ UNCHANGED <<registry, market>>
    /\ UNCHANGED <<liq, botVars, utilVars>>

Next ==
    \/ RegisterExchangeAdapter
    \/ FundingRatesChange
    \/ EvaluateCandidate
    \/ DiscardCandidate
    \/ MakePositionFromEval
    \/ EvaluatePositionNow
    \/ BuildPositionNotification
    \/ ClosePosition

Spec == Init /\ [][Next]_vars

(***************************************************************************)
(* Liquidity scoring of a candidate while its markets deepen               *)
(***************************************************************************)
\* What the exchanges answer for a symbol: funding interval (min), the two
\* funding rates and the two mark prices.
LiqScenarios ==
    {[iv |-> 480, fr_s |-> R(2, 1095), fr_l |-> Zero, px_s |-> R(2000, 1), px_l |-> R(2000, 1)],
     [iv |-> 480, fr_s |-> R(1, 1095), fr_l |-> Zero, px_s |-> R(2000, 1), px_l |-> R(1999, 1)],
     [iv |-> 480, fr_s |-> R(4, 5475), fr_l |-> Zero, px_s |-> R(1000, 1), px_l |-> R(999, 1)],
     [iv |-> 480, fr_s |-> R(1, 2000), fr_l |-> Zero, px_s |-> R(1997, 1), px_l |-> R(2000, 1)],
     [iv |-> 480, fr_s |-> R(-1, 10000), fr_l |-> R(1, 10000), px_s |-> R(1000, 1), px_l |-> R(998, 1)],
     [iv |-> 240, fr_s |-> R(1, 1095), fr_l |-> Zero, px_s |-> Zero, px_l |-> Zero],
     [iv |-> 240, fr_s |-> R(1, 2000), fr_l |-> Zero, px_s |-> R(2000, 1), px_l |-> R(2000, 1)]}

\* 24h turnover (USDT) and best ask / best bid notional (USDT) of a leg.
VolValues == {0, 100000000, 300000000, 1000000000, 2000000000}

AskValues == {50000, 100000, 200000, 500000, 1000000}

BidValues == {200000, 1000000}

ThinMarket(sc) ==
    [iv |-> sc.iv, fr_s |-> sc.fr_s, fr_l |-> sc.fr_l, px_s |-> sc.px_s, px_l |-> sc.px_l,
     vol_s |-> 0, ask_s |-> 50000, bid_s |-> 200000,
     vol_l |-> 0, ask_l |-> 50000, bid_l |-> 200000]

RankCall(a) == [args |-> a, res |-> evaluate_liquidity_and_rank(a)]

EngineAtRest ==
    /\ registry = {}
    /\ market = [fr |-> Pair(1, 1), price |-> Pair(100, 100), lot |-> Pair(1, 1)]
    /\ position = <<>>
    /\ out = NoCall

InitRank ==
    /\ EngineAtRest
    /\ BotAtRest
    /\ UtilAtRest
    /\ \E sc \in LiqScenarios : liq = RankCall(ThinMarket(sc))

\* Another candidate is scored, on thin markets.
RankCandidate ==
    /\ \E sc \in LiqScenarios :
          /\ ThinMarket(sc) # liq.args
          /\ liq' = RankCall(ThinMarket(sc))
    /\ UNCHANGED <<engineVars, botVars, utilVars>>

\* The 24h volume of one leg has grown when the candidate is scored again.
VolumeRises ==
    /\ \E v \in VolValues :
          \/ v > liq.args.vol_s /\ liq' = RankCall([liq.args EXCEPT !.vol_s = v])
          \/ v > liq.args.vol_l /\ liq' = RankCall([liq.args EXCEPT !.vol_l = v])
    /\ UNCHANGED <<engineVars, botVars, utilVars>>

\* The best ask or bid of one leg has grown when the candidate is scored again.
DepthRises ==
    /\ \/ \E v \in AskValues :
             \/ v > liq.args.ask_s /\ liq' = RankCall([liq.args EXCEPT !.ask_s = v])
             \/ v > liq.args.ask_l /\ liq' = RankCall([liq.args EXCEPT !.ask_l = v])
       \/ \E v \in BidValues :
             \/ v > liq.args.bid_s /\ liq' = RankCall([liq.args EXCEPT !.bid_s = v])
             \/ v > liq.args.bid_l /\ liq' = RankCall([liq.args EXCEPT !.bid_l = v])
    /\ UNCHANGED <<engineVars, botVars, utilVars>>

NextRank ==
    \/ RankCandidate
    \/ VolumeRises
    \/ DepthRises

SpecRank == InitRank /\ [][NextRank]_vars

(***************************************************************************)
(* The Discord bot: the scan loop and the buttons                          *)
(***************************************************************************)
SCAN_MINUTES == 5
APR_MIN_ALERT == 100
COOLDOWN_MINUTES == 30
DEFAULT_INTERVAL_MIN == 480

\* Scans run at minutes 0, 5, ..., 5 * (MaxScans - 1).
MaxScans == 7

\* When the next funding falls, as first reported.
FundingTimes == {10, 17}

\* Funding-rate differences the exchanges report to a scan: APR 80 and 200.
BotDiffValues == {R(4, 5475), R(2, 1095)}

minutes_to_next_funding == IF next_funding - now_min > 0 THEN next_funding - now_min ELSE 0

\* The keys of a dict in insertion order.
KeysOnRecord == SelectSeq(PosKeys, LAMBDA k : k \in positions_file)

\* ch.send(embed, view=DecideView(key, sym)) of a reminder or an alert.
Posted(kind, key) ==
    [sent EXCEPT !.last = [kind |-> kind, key |-> key, on_record |-> key \in positions_file],
                 !.views = @ \cup {key},
                 !.reminders[key] = IF kind = "reminder" THEN IMin(@ + 1, 2) ELSE @,
                 !.alerts[key] = IF kind = "alert"
                                 THEN (IF Len(@) = 2 THEN <<@[2], now_min>> ELSE Append(@, now_min))
                                 ELSE @]

\* The scan coroutine is suspended in an await, or not running: other
\* handlers of the event loop run only then.
Yielded == scan.pc \in {"idle", "sent_reminder", "sent_alert"}

InitBot ==
    /\ EngineAtRest
    /\ UtilAtRest
    /\ liq = NoRank
    /\ now_min = 0
    /\ positions_file = Keys
    /\ cooldown_file = EmptyDict
    /\ next_funding \in FundingTimes
    /\ scan = ScanIdle
    /\ sent = NothingSent
    /\ reply = NoReply

\* The timer of tasks.loop(minutes=SCAN_MINUTES).
TimePasses ==
    /\ scan.pc = "idle"
    /\ ~scan.due
    /\ now_min + SCAN_MINUTES <= SCAN_MINUTES * (MaxScans - 1)
    /\ now_min' = now_min + SCAN_MINUTES
    /\ scan' = ScanIdle
    /\ UNCHANGED <<engineVars, liq, utilVars, positions_file, cooldown_file, next_funding, sent, reply>>

\* The exchange publishes the funding that has fallen due.
FundingSettles ==
    /\ Yielded
    /\ now_min >= next_funding
    /\ next_funding' = next_funding + DEFAULT_INTERVAL_MIN
    /\ sent' = [sent EXCEPT !.reminders = [k \in Keys |-> 0]]
    /\ UNCHANGED <<engineVars, liq, utilVars, now_min, positions_file, cooldown_file, scan, reply>>

\* scan_positions: both files are loaded.
ScanStart ==
    /\ scan.pc = "idle"
    /\ scan.due
    /\ scan' = [pc |-> "loop", due |-> FALSE, keys |-> KeysOnRecord, idx |-> 1,
                cooldown |-> cooldown_file, apr |-> Zero]
    /\ UNCHANGED <<engineVars, liq, utilVars, now_min, positions_file, cooldown_file, next_funding, sent, reply>>

\* The run is over; the timer has not fired again.
ScanDone == [ScanIdle EXCEPT !.due = FALSE]

\* One position of the snapshot: market data is fetched; a public API call
\* may fail for good, which ends the run in the except branch; within 0..5
\* minutes of the funding the reminder is posted.
ScanFetch ==
    /\ scan.pc = "loop"
    /\ scan.idx <= Len(scan.keys)
    /\ LET key == scan.keys[scan.idx]
           m == minutes_to_next_funding
       IN  \/ /\ scan' = ScanDone
              /\ sent' = [sent EXCEPT !.last = [kind |-> "error", key |-> "", on_record |-> FALSE]]
           \/ \E diff \in BotDiffValues :
                LET apr == calc_apr(RMax(Zero, diff), DEFAULT_INTERVAL_MIN)
                IN  IF 0 <= m /\ m <= 5
                    THEN /\ sent' = Posted("reminder", key)
                         /\ scan' = [scan EXCEPT !.pc = "sent_reminder", !.apr = apr]
                    ELSE /\ sent' = sent
                         /\ scan' = [scan EXCEPT !.pc = "apr", !.apr = apr]
    /\ UNCHANGED <<engineVars, liq, utilVars, now_min, positions_file, cooldown_file, next_funding, reply>>

\* The same position: the APR alert, unless one was sent within the cooldown.
ScanApr ==
    /\ scan.pc \in {"sent_reminder", "apr"}
    /\ LET key == scan.keys[scan.idx]
           should == \/ key \notin DOMAIN scan.cooldown
                     \/ ~(now_min - scan.cooldown[key] < COOLDOWN_MINUTES)
       IN  IF RLt(scan.apr, R(APR_MIN_ALERT, 1)) /\ should
           THEN /\ sent' = Posted("alert", key)
                /\ scan' = [scan EXCEPT !.pc = "sent_alert"]
           ELSE /\ sent' = sent
                /\ scan' = [scan EXCEPT !.pc = "loop", !.idx = @ + 1]
    /\ UNCHANGED <<engineVars, liq, utilVars, now_min, positions_file, cooldown_file, next_funding, reply>>

\* The alert is out: its time goes into the run's copy of the cooldown dict.
ScanAfterAlert ==
    /\ scan.pc = "sent_alert"
    /\ scan' = [scan EXCEPT !.cooldown = (scan.keys[scan.idx] :> now_min) @@ @,
                            !.pc = "loop", !.idx = @ + 1]
    /\ UNCHANGED <<engineVars, liq, utilVars, now_min, positions_file, cooldown_file, next_funding, sent, reply>>

\* After the last position the cooldown dict is written back.
ScanSave ==
    /\ scan.pc = "loop"
    /\ scan.idx > Len(scan.keys)
    /\ cooldown_file' = scan.cooldown
    /\ scan' = ScanDone
    /\ UNCHANGED <<engineVars, liq, utilVars, now_min, positions_file, next_funding, sent, reply>>

\* DecideView.close_pos, pressed on a message posted for the key.
ClosePos ==
    /\ Yielded
    /\ \E key \in sent.views :
          IF key \in positions_file
          THEN /\ positions_file' = positions_file \ {key}
               /\ reply' = [key |-> key, text |-> "closed"]
          ELSE /\ positions_file' = positions_file
               /\ reply' = [key |-> key, text |-> "not found"]
    /\ UNCHANGED <<engineVars, liq, utilVars, now_min, cooldown_file, next_funding, scan, sent>>

NextBot ==
    \/ TimePasses
    \/ FundingSettles
    \/ ScanStart
    \/ ScanFetch
    \/ ScanApr
    \/ ScanAfterAlert
    \/ ScanSave
    \/ ClosePos

SpecBot == InitBot /\ [][NextBot]_vars

(***************************************************************************)
(* http_get (fr_arbitrage_discord_bot.py): one call, attempt by attempt    *)
(***************************************************************************)
\* Every caller leaves max_retries at its default, 3; the smaller values run
\* the same loop with fewer rounds.
MaxRetriesValues == {1, 2, 3}

\* What one requests.get can meet: a status (0: no response at all, the
\* request timed out or the connection failed) and the body ("" when it does
\* not parse as JSON).
Responses ==
    {[status |-> 200, body |-> "a"], [status |-> 200, body |-> "b"],
     [status |-> 200, body |-> ""], [status |-> 404, body |-> "a"],
     [status |-> 429, body |-> ""], [status |-> 503, body |-> "a"],
     [status |-> 0, body |-> ""]}

retry_status(status) == status = 429 \/ (500 <= status /\ status < 600)

\* A try block that looks at the status only and never parses the body.
attempt_error_status_only(o) ==
    IF o.status = 0 THEN "RequestException"
    ELSE IF retry_status(o.status) THEN "RuntimeError"
    ELSE ""

\* The exception one pass through the try block raises, "" when it returns.
attempt_error(o) ==
    IF o.status = 0 THEN "RequestException"
    ELSE IF retry_status(o.status) THEN "RuntimeError"
    ELSE IF o.body = "" THEN "JSONDecodeError"
    ELSE ""

HttpError(o) == [kind |-> "error", val |-> <<attempt_error(o), o.status>>]

HttpJson(o) == [kind |-> "json", val |-> o.body]

HttpDone == http.pc \in {"idle", "returned", "raised"}

InitHttp ==
    /\ EngineAtRest
    /\ liq = NoRank
    /\ BotAtRest
    /\ UtilAtRest

\* http_get(url, ...) is called: the for loop is entered, or skipped when
\* range(max_retries) is empty and the function falls off its end.
HttpGet ==
    /\ HttpDone
    /\ \E max_retries \in MaxRetriesValues :
          http' = [pc |-> IF 0 < max_retries THEN "try" ELSE "returned",
                   max_retries |-> max_retries, i |-> 0, seen |-> <<>>, res |-> NoResult]
    /\ UNCHANGED <<engineVars, liq, botVars, lots>>

\* One pass through the try block: the request, the status test, r.json();
\* then the except branch, which re-raises on the last round.
HttpAttempt ==
    /\ http.pc = "try"
    /\ \E o \in Responses :
          http' = [http EXCEPT
                     !.seen = Append(@, o),
                     !.pc = IF attempt_error(o) = "" THEN "returned"
                            ELSE IF http.i = http.max_retries - 1 THEN "raised"
                            ELSE "sleep",
                     !.res = IF attempt_error(o) = "" THEN HttpJson(o)
                             ELSE IF http.i = http.max_retries - 1 THEN HttpError(o)
                             ELSE NoResult]
    /\ UNCHANGED <<engineVars, liq, botVars, lots>>

\* time.sleep(backoff * 2**i + jitter) is over: the next round of the loop.
HttpSleep ==
    /\ http.pc = "sleep"
    /\ http' = [http EXCEPT !.i = @ + 1,
                            !.pc = IF http.i + 1 < http.max_retries THEN "try" ELSE "returned"]
    /\ UNCHANGED <<engineVars, liq, botVars, lots>>

NextHttp ==
    \/ HttpGet
    \/ HttpAttempt
    \/ HttpSleep

\* requests.get is given timeout = 15 and time.sleep a finite time: a call
\* that can take a step takes it.
SpecHttp == InitHttp /\ [][NextHttp]_vars /\ WF_vars(HttpAttempt) /\ WF_vars(HttpSleep)

(***************************************************************************)
(* generate_dynamic_lot_options (fr_arbitrage_bot.py)                      *)
(***************************************************************************)
\* Available balances (USDT) of the two accounts: empty, below one step,
\* between steps, a fraction, well above.
AvailValues == {R(0, 1), R(5, 1), R(12, 1), R(51, 2), R(47, 1), R(100, 1)}

\* Lot steps (USDT, an int) and buffers (USDT) a caller passes; 10 and 2.0
\* are the defaults.
StepValues == {5, 10}

BufferValues == {R(0, 1), R(2, 1)}

\* cap = max(0.0, min(bybit_avail, bitget_avail) - buffer_usdt)
lot_cap(bybit_avail, bitget_avail, buffer_usdt) ==
    RMax(Zero, RSub(RMin(bybit_avail, bitget_avail), buffer_usdt))

\* list(range(step, int(cap // step) * step + step, step)), or [step] when
\* cap < step.
generate_dynamic_lot_options(bybit_avail, bitget_avail, step, buffer_usdt) ==
    LET cap == lot_cap(bybit_avail, bitget_avail, buffer_usdt)
    IN  IF RLt(cap, R(step, 1)) THEN <<step>>
        ELSE [k \in 1..RFloor(RDiv(cap, R(step, 1))) |-> k * step]

InitLots ==
    /\ EngineAtRest
    /\ liq = NoRank
    /\ BotAtRest
    /\ UtilAtRest

\* The lot choices are computed for the balances of the moment.
GenerateDynamicLotOptions ==
    /\ \E bybit_avail \in AvailValues, bitget_avail \in AvailValues,
          step \in StepValues, buffer_usdt \in BufferValues :
          lots' = [args |-> [bybit_avail |-> bybit_avail, bitget_avail |-> bitget_avail,
                            step |-> step, buffer_usdt |-> buffer_usdt],
                   res |-> generate_dynamic_lot_options(bybit_avail, bitget_avail, step, buffer_usdt)]
    /\ UNCHANGED <<engineVars, liq, botVars, http>>

NextLots == GenerateDynamicLotOptions

SpecLots == InitLots /\ [][NextLots]_vars

(***************************************************************************)
(* What the last call was and what it was given                            *)
(***************************************************************************)
EvalCalled == out.op = "evaluate_candidate"
EvalReturned == EvalCalled /\ out.res.kind = "ok"
NowCalled == out.op = "evaluate_position_now"
NowReturned == NowCalled /\ out.res.kind = "ok"

\* Both exchanges of the call had an adapter.
AdaptersFound == ~(out.res.kind = "raise" /\ out.res.exc = "ValueError")

\* The two live rates are those the last call read: a change of rates drops out.
LiveRatesEqual == market.fr["Bybit"] = market.fr["Bitget"]

\* hours / per, clamped at zero.
PeriodsElapsed(entry_ts, now_ts, per) == RMax(Zero, RDiv(R(now_ts - entry_ts, 1), per))

EntryCost(p) == RAdd(p.fees_total_usdt, p.entry_basis_cost_usdt)

(***************************************************************************)
(* C1                                                                      *)
(***************************************************************************)
\* C1 as stated: est_pnl = notional_total * diff_4h_now * periodsElapsed - (fees
\* + basis) with periodsElapsed = max(0, hours since entry / position.interval_h).
C1_PnlCountsIntervalPeriods ==
    NowReturned =>
        LET p == out.args.position
            st == out.res.val
        IN  st.est_pnl_usdt =
                RSub(RMul(RMul(p.notional_total, st.diff_4h_now),
                          PeriodsElapsed(p.entry_ts, out.args.now_ts, p.interval_h)),
                     EntryCost(p))

\* C1 amended: periodsElapsed = max(0, hours since entry / 4) whatever the
\* position's interval_h is; est_pnl = notional_total * diff_4h_now *
\* periodsElapsed - (fees + basis).
C1_PnlCounts4hPeriods ==
    NowReturned =>
        LET p == out.args.position
            st == out.res.val
        IN  st.est_pnl_usdt =
                RSub(RMul(RMul(p.notional_total, st.diff_4h_now),
                          PeriodsElapsed(p.entry_ts, out.args.now_ts, R(4, 1))),
                     EntryCost(p))

\* An 8h position re-evaluated after its entry.
C1_Witness ==
    /\ NowReturned
    /\ out.args.position.interval_h = R(8, 1)
    /\ out.args.now_ts > out.args.position.entry_ts

(***************************************************************************)
(* C2                                                                      *)
(***************************************************************************)
\* C2: with equal funding rates evaluate_candidate and evaluate_position_now
\* return a result with diff_4h = 0, apr_gross_pct = 0 and an infinite n_min
\* (no finite interval count), and raise nothing.
C2_EqualRatesDegrade ==
    /\ (EvalCalled /\ AdaptersFound /\ LiveRatesEqual /\ RGt(out.args.interval_h, Zero)
        /\ RGt(out.args.side_notional_usdt, Zero)) =>
            /\ out.res.kind = "ok"
            /\ out.res.val.diff_4h = Zero
            /\ out.res.val.apr_gross_pct = Zero
            /\ out.res.val.n_min \notin Int
    /\ (NowCalled /\ LiveRatesEqual) =>
            /\ out.res.kind = "ok"
            /\ out.res.val.diff_4h_now = Zero
            /\ out.res.val.apr_gross_now_pct = Zero
            /\ out.res.val.n_min_now \notin Int

(***************************************************************************)
(* C3                                                                      *)
(***************************************************************************)
\* The candidate's total notional is zero: both legs' quantities round to 0.
CandidateNotionalIsZero(a) ==
    \A e \in {a.ex_a, a.ex_b} :
        round_qty_to_lot(e, RMax(Zero, RDiv(a.side_notional_usdt, fetch_mark_price(e)))) = Zero

\* C3: with zero total notional evaluate_candidate returns an EvalResult whose
\* break-even is the sentinel 9e9 * interval_h / 4 and never raises, also when
\* the funding-rate differential is positive.
C3_ZeroNotionalSentinel ==
    (EvalCalled /\ AdaptersFound /\ RGt(out.args.interval_h, Zero)
     /\ ~LiveRatesEqual /\ CandidateNotionalIsZero(out.args)) =>
        /\ out.res.kind = "ok"
        /\ out.res.val.be_per_int = RMul(BE_SENTINEL, RDiv(out.args.interval_h, R(4, 1)))

(***************************************************************************)
(* C4                                                                      *)
(***************************************************************************)
\* C4: evaluate_candidate with interval_h <= 0 is rejected with an error
\* before any computation: no adapter has been asked for a rate or a price.
C4_BadIntervalRejectedFirst ==
    (EvalCalled /\ AdaptersFound /\ RLe(out.args.interval_h, Zero)) =>
        /\ out.res.kind = "raise"
        /\ out.res.calls = 0

(***************************************************************************)
(* C5                                                                      *)
(***************************************************************************)
\* C5: the verdict of an EvalResult is keep when margin_bps >= threshold,
\* watch when 0 <= margin_bps < threshold, close when margin_bps < 0, with
\* margin_bps = (diff_per_int - be_per_int) * 10000; it is one of the three.
C5_VerdictThreeWay ==
    EvalReturned =>
        LET ev == out.res.val
            m == RMul(RSub(ev.diff_per_int, ev.be_per_int), R(10000, 1))
            k == out.args.keep_margin_bp
        IN  /\ ev.decision \in {"keep", "watch", "close"}
            /\ RGe(m, k) => ev.decision = "keep"
            /\ (RGe(m, Zero) /\ RLt(m, k)) => ev.decision = "watch"
            /\ RLt(m, Zero) => ev.decision = "close"

\* A margin exactly at the threshold.
C5_Witness ==
    /\ EvalReturned
    /\ RMul(RSub(out.res.val.diff_per_int, out.res.val.be_per_int), R(10000, 1))
           = out.args.keep_margin_bp
    /\ out.res.val.decision = "keep"

(***************************************************************************)
(* C6                                                                      *)
(***************************************************************************)
Upper(decision) ==
    IF decision = "keep" THEN "KEEP" ELSE IF decision = "watch" THEN "WATCH" ELSE "CLOSE"

\* C6: the verdict shown for a re-evaluated position classifies its current
\* margin against the keep_margin_bp passed to evaluate_position_now.
C6_ShownVerdictFollowsThreshold ==
    (NowReturned /\ out.shown # "") =>
        LET st == out.res.val
            m == RMul(RSub(st.diff_per_int_now, st.be_per_int_now), R(10000, 1))
        IN  out.shown = Upper(decide(m, out.args.keep_margin_bp))

(***************************************************************************)
(* C7                                                                      *)
(***************************************************************************)
\* C7: apr_net_pct <= apr_gross_pct in every EvalResult, and apr_net_now_pct
\* <= apr_gross_now_pct in every PositionStatus.
C7_NetAprAtMostGross ==
    /\ EvalReturned => RLe(out.res.val.apr_net_pct, out.res.val.apr_gross_pct)
    /\ NowReturned => RLe(out.res.val.apr_net_now_pct, out.res.val.apr_gross_now_pct)

\* A position whose net APR is positive and below its gross APR.
C7_Witness ==
    /\ NowReturned
    /\ RGt(out.res.val.apr_net_now_pct, Zero)
    /\ RLt(out.res.val.apr_net_now_pct, out.res.val.apr_gross_now_pct)

(***************************************************************************)
(* C8                                                                      *)
(***************************************************************************)
\* C8: the entry basis cost is max(0, priceLong * (1 + slipLong/10000) -
\* priceShort * (1 - slipShort/10000)) * min(qtyShort, qtyLong); it is never
\* negative, 0 when the expected sell price is at least the expected buy
\* price, and 0 when either quantity is 0.
C8_EntryBasisCost ==
    EvalReturned =>
        LET sh == out.res.leg_h
            lg == out.res.leg_l
            sell == RMul(sh.mark_price, RSub(R(1, 1), RDiv(sh.vwap_slippage_est_bps, R(10000, 1))))
            buy == RMul(lg.mark_price, RAdd(R(1, 1), RDiv(lg.vwap_slippage_est_bps, R(10000, 1))))
            cost == out.res.val.entry_basis_cost_usdt
        IN  /\ cost = RMul(RMax(Zero, RSub(buy, sell)), RMin(sh.qty, lg.qty))
            /\ RGe(cost, Zero)
            /\ RGe(sell, buy) => cost = Zero
            /\ (sh.qty = Zero \/ lg.qty = Zero) => cost = Zero

\* A positive basis cost on legs of different quantities.
C8_Witness ==
    /\ EvalReturned
    /\ RGt(out.res.val.entry_basis_cost_usdt, Zero)
    /\ out.res.leg_h.qty # out.res.leg_l.qty

(***************************************************************************)
(* C9                                                                      *)
(***************************************************************************)
\* The yield of n intervals, cost and n_min of the result just returned.
YieldOf(n, notional_total, diff_per_int) ==
    RMul(R(n, 1), RMul(notional_total, diff_per_int))

\* C9 as stated: n_min is the least integer n whose accumulated yield
\* n * notional_total * diff_per_int exceeds the total entry cost.
C9_NMinLeastExceeding ==
    /\ EvalReturned =>
        LET ev == out.res.val
            cost == RAdd(ev.fees_total_usdt, ev.entry_basis_cost_usdt)
        IN  /\ RGt(YieldOf(ev.n_min, ev.notional_total, ev.diff_per_int), cost)
            /\ ~RGt(YieldOf(ev.n_min - 1, ev.notional_total, ev.diff_per_int), cost)
    /\ NowReturned =>
        LET st == out.res.val
            p == out.args.position
        IN  /\ RGt(YieldOf(st.n_min_now, p.notional_total, st.diff_per_int_now), EntryCost(p))
            /\ ~RGt(YieldOf(st.n_min_now - 1, p.notional_total, st.diff_per_int_now), EntryCost(p))

\* C9 amended: n_min is the least integer n whose accumulated yield
\* n * notional_total * diff_per_int reaches (is at least) the total entry cost.
C9_NMinLeastReaching ==
    /\ EvalReturned =>
        LET ev == out.res.val
            cost == RAdd(ev.fees_total_usdt, ev.entry_basis_cost_usdt)
        IN  /\ RGe(YieldOf(ev.n_min, ev.notional_total, ev.diff_per_int), cost)
            /\ ~RGe(YieldOf(ev.n_min - 1, ev.notional_total, ev.diff_per_int), cost)
    /\ NowReturned =>
        LET st == out.res.val
            p == out.args.position
        IN  /\ RGe(YieldOf(st.n_min_now, p.notional_total, st.diff_per_int_now), EntryCost(p))
            /\ ~RGe(YieldOf(st.n_min_now - 1, p.notional_total, st.diff_per_int_now), EntryCost(p))

\* A candidate that needs several intervals to recover a positive cost.
C9_Witness ==
    /\ EvalReturned
    /\ RGt(RAdd(out.res.val.fees_total_usdt, out.res.val.entry_basis_cost_usdt), Zero)
    /\ out.res.val.n_min >= 2

(***************************************************************************)
(* C10                                                                     *)
(***************************************************************************)
\* C10: re-evaluating a Position at now_ts <= entry_ts yields est_pnl_usdt =
\* -(fees_total_usdt + entry_basis_cost_usdt), whatever the live rates are.
C10_PnlAtEntryIsMinusCost ==
    (NowCalled /\ out.args.now_ts <= out.args.position.entry_ts) =>
        /\ out.res.kind = "ok"
        /\ out.res.val.est_pnl_usdt = RNeg(EntryCost(out.args.position))

EntryFieldsOf(p) ==
    [n_min_entry |-> p.entry_n_min,
     diff_per_int_entry |-> RMul(p.entry_diff_4h, RDiv(p.interval_h, R(4, 1))),
     entry_ts |-> p.entry_ts]

EntryFieldsIn(st) ==
    [n_min_entry |-> st.n_min_entry,
     diff_per_int_entry |-> st.diff_per_int_entry,
     entry_ts |-> st.entry_ts]

\* C12: a call of evaluate_position_now leaves every field of the Position as
\* it was, over any sequence of calls, and the entry-comparison fields of the
\* PositionStatus results (n_min_entry, diff_per_int_entry, entry_ts) are the
\* same from one scan to the next.
C12_PositionFrozen ==
    /\ [](NowReturned => (position = <<out.args.position>>
                          /\ EntryFieldsIn(out.res.val) = EntryFieldsOf(position[1])))
    /\ [][(position # <<>> /\ NowCalled') => position' = position]_vars
    /\ [][(NowReturned /\ NowReturned') =>
              EntryFieldsIn(out'.res.val) = EntryFieldsIn(out.res.val)]_vars

\* A second look at the same position at a later time.
C12_Witness ==
    /\ NowReturned
    /\ out.args.now_ts = 8
    /\ out.args.position.interval_h = R(8, 1)
    /\ out.res.val.n_min_now # out.res.val.n_min_entry

(***************************************************************************)
(* C13                                                                     *)
(***************************************************************************)
\* C13: in every candidate built by evaluate_candidate the short leg and the
\* long leg have the same notional, whatever the mark prices and lot steps.
C13_LegNotionalsEqual ==
    EvalReturned => out.res.leg_h.notional = out.res.leg_l.notional

(***************************************************************************)
(* C14                                                                     *)
(***************************************************************************)
\* The value a leg must carry for an optional override: the override when one
\* is supplied (0 included), the fallback when it is absent.
Supplied(opt, fallback) == IF opt = <<>> THEN fallback ELSE opt[1]

\* C14: make_position_from_eval uses the fallbacks 0.00055 / 0.00060 / 6 bps
\* only for an absent override; a supplied override, 0 included, is the value
\* the leg carries.
C14_OverridesRespected ==
    (out.op = "make_position_from_eval") =>
        LET a == out.args
            p == out.res.val
        IN  /\ p.leg_a.fee_rate_taker = Supplied(a.fee_taker_high, R(55, 100000))
            /\ p.leg_b.fee_rate_taker = Supplied(a.fee_taker_low, R(60, 100000))
            /\ p.leg_a.vwap_slippage_est_bps = Supplied(a.slip_bps_high, R(6, 1))
            /\ p.leg_b.vwap_slippage_est_bps = Supplied(a.slip_bps_low, R(6, 1))

RankOrder(rank) ==
    CASE rank = "S" -> 4 [] rank = "A" -> 3 [] rank = "B" -> 2 [] rank = "C" -> 1 [] rank = "D" -> 0

\* From a to b only 24h volumes and min(ask, bid) depths have changed, none
\* downwards.
OnlyLiquidityRaised(a, b) ==
    /\ <<b.iv, b.fr_s, b.fr_l, b.px_s, b.px_l>> = <<a.iv, a.fr_s, a.fr_l, a.px_s, a.px_l>>
    /\ b.vol_s >= a.vol_s
    /\ b.vol_l >= a.vol_l
    /\ IMin(b.ask_s, b.bid_s) >= IMin(a.ask_s, a.bid_s)
    /\ IMin(b.ask_l, b.bid_l) >= IMin(a.ask_l, a.bid_l)

\* C16: the liquidity scorer is monotonic: with a higher 24h volume or a
\* higher min(ask, bid) depth on either leg and everything else as it was,
\* the total score is not lower and the rank letter is not worse.
C16_ScorerMonotonic ==
    [][OnlyLiquidityRaised(liq.args, liq'.args) =>
          /\ liq'.res.score >= liq.res.score
          /\ RankOrder(liq'.res.rank) >= RankOrder(liq.res.rank)]_vars

\* Both legs have deepened up to the top tiers and the candidate ranks S.
C16_Witness ==
    /\ liq.args # <<>>
    /\ liq.args.vol_s = 2000000000
    /\ liq.args.vol_l = 2000000000
    /\ IMin(liq.args.ask_s, liq.args.bid_s) = 1000000
    /\ IMin(liq.args.ask_l, liq.args.bid_l) = 1000000
    /\ liq.res.rank = "S"

(***************************************************************************)
(* C17                                                                     *)
(***************************************************************************)
\* The 0..4 tier of x: how many of the four thresholds x has reached.
TierOf(x, tiers) == Cardinality({i \in 1..4 : x >= tiers[i]})

\* C17: score = volumeScore + depthScore + gapPenalty + aprAdjustment, the
\* first two the minimum of the two legs' 0..4 tiers, gapPenalty -2 above
\* 15 bps and -1 above 5 bps, aprAdjustment +1 / 0 / -1 / -2 for APR >= 200 /
\* >= 100 / >= 80 / below 80; rank S for score >= 7, A >= 5, B >= 3, C >= 1,
\* otherwise D.
C17_ScoreAndRank ==
    (liq.args # <<>>) =>
        LET a == liq.args
            mt == liq.res.metrics
            volumeScore == IMin(TierOf(a.vol_s, VOL_TIERS), TierOf(a.vol_l, VOL_TIERS))
            depthScore == IMin(TierOf(mt.bbo_short_min, BBO_TIERS), TierOf(mt.bbo_long_min, BBO_TIERS))
            gapPenalty == IF RGt(mt.gap_bps, R(15, 1)) THEN -2
                          ELSE IF RGt(mt.gap_bps, R(5, 1)) THEN -1 ELSE 0
            aprAdjustment == IF RGe(mt.apr, R(200, 1)) THEN 1
                             ELSE IF RGe(mt.apr, R(100, 1)) THEN 0
                             ELSE IF RGe(mt.apr, R(80, 1)) THEN -1 ELSE -2
            score == liq.res.score
        IN  /\ score = volumeScore + depthScore + gapPenalty + aprAdjustment
            /\ mt.bbo_short_min = IMin(a.ask_s, a.bid_s)
            /\ mt.bbo_long_min = IMin(a.ask_l, a.bid_l)
            /\ gapPenalty \in {0, -1, -2}
            /\ liq.res.rank = (IF score >= 7 THEN "S" ELSE IF score >= 5 THEN "A"
                               ELSE IF score >= 3 THEN "B" ELSE IF score >= 1 THEN "C" ELSE "D")

\* A price gap exactly at 5 bps (no penalty) with an APR exactly at 100 (no
\* adjustment) on unequal legs.
C17_Witness ==
    /\ liq.args # <<>>
    /\ liq.res.metrics.gap_bps = R(5, 1)
    /\ liq.res.metrics.apr = R(100, 1)
    /\ liq.args.vol_s = 1000000000
    /\ liq.args.vol_l = 300000000
    /\ liq.res.score = 2 + TierOf(liq.res.metrics.bbo_long_min, BBO_TIERS)
    /\ liq.res.metrics.bbo_long_min < liq.res.metrics.bbo_short_min

(***************************************************************************)
(* C18                                                                     *)
(***************************************************************************)
\* C18: two APR-drop alerts for the same position key are never sent less
\* than 30 minutes apart, whatever else happens in a scan after an alert.
C18_AlertsHalfAnHourApart ==
    \A k \in Keys :
        Len(sent.alerts[k]) = 2 => sent.alerts[k][2] - sent.alerts[k][1] >= COOLDOWN_MINUTES

(***************************************************************************)
(* C19                                                                     *)
(***************************************************************************)
\* C19: for each position and each funding event at most one 'Funding 5min
\* before' reminder is posted over the scans that fall within 0..5 minutes of
\* the funding.
C19_OneReminderPerFunding ==
    \A k \in Keys : sent.reminders[k] <= 1

(***************************************************************************)
(* C20                                                                     *)
(***************************************************************************)
\* C20: no reminder or APR alert is posted for a key that close_pos has
\* removed from the store, also by a scan that was running when it was
\* removed; a close of a key that is not on record answers 'not found' and
\* leaves the store as it is.
C20_NothingAfterClose ==
    /\ []((sent.last # <<>> /\ sent.last.kind \in {"reminder", "alert"}) => sent.last.on_record)
    /\ [][(reply' # reply /\ reply'.key \notin positions_file) =>
              (reply'.text = "not found" /\ positions_file' = positions_file)]_vars

(***************************************************************************)
(* C21                                                                     *)
(***************************************************************************)
\* A response that is neither 429 nor 5xx.
Accepted(o) == o.status # 0 /\ o.status # 429 /\ o.status \notin 500..599

\* A response that is neither 429 nor 5xx and whose body parses as JSON.
Parsed(o) == Accepted(o) /\ o.body # ""

\* The rounds of the call in progress that met an accepted / a parsed response.
AcceptedRounds == {j \in 1..Len(http.seen) : Accepted(http.seen[j])}

ParsedRounds == {j \in 1..Len(http.seen) : Parsed(http.seen[j])}

\* What holds of a call whose successful rounds are `rounds`: never more
\* than max_retries requests, none after a successful one; a return hands
\* back the body of the first successful round; a sleep follows a failed
\* round that is not the last; a raise follows max_retries failed rounds
\* and carries the error of the last one.
BoundedRetry(rounds) ==
    /\ Len(http.seen) <= http.max_retries
    /\ \A j \in rounds : j = Len(http.seen)
    /\ http.pc = "returned" =>
          /\ rounds = {Len(http.seen)}
          /\ http.res = [kind |-> "json", val |-> http.seen[Len(http.seen)].body]
    /\ http.pc = "try" => rounds = {} /\ Len(http.seen) = http.i
    /\ http.pc = "sleep" => rounds = {} /\ Len(http.seen) = http.i + 1 /\ http.i + 1 < http.max_retries
    /\ http.pc = "raised" =>
          /\ rounds = {}
          /\ Len(http.seen) = http.max_retries
          /\ http.res.kind = "error"
          /\ http.res.val[2] = http.seen[Len(http.seen)].status

\* C21 (as stated): http_get issues at most max_retries requests, returns the
\* JSON body of the first response that is neither 429 nor 5xx, retries after
\* every failed attempt but the last, raises the last error when all attempts
\* fail, and always ends with a parsed response or an error.
C21_FirstAcceptedResponseReturned ==
    /\ []BoundedRetry(AcceptedRounds)
    /\ (~HttpDone ~> HttpDone)

\* C21 (amended): as above, but the response handed back is the first one
\* that is neither 429 nor 5xx and whose body parses as JSON; a response
\* whose body does not parse is a failed attempt like a 429, a 5xx or a
\* request that got no response.
C21_FirstParsedResponseReturned ==
    /\ []BoundedRetry(ParsedRounds)
    /\ (~HttpDone ~> HttpDone)

\* A 200 whose body does not parse, then a 429, then a 200 with a JSON body,
\* which is returned.
C21_Witness ==
    /\ http.pc = "returned"
    /\ http.max_retries = 3
    /\ Len(http.seen) = 3
    /\ http.seen[1] = [status |-> 200, body |-> ""]
    /\ http.seen[2].status = 429
    /\ http.res = [kind |-> "json", val |-> "b"]

(***************************************************************************)
(* C22                                                                     *)
(***************************************************************************)
\* The same call with the two exchanges in the other order, each keeping its
\* own fee and slippage.
Swapped(a) ==
    [a EXCEPT !.ex_a = a.ex_b, !.ex_b = a.ex_a,
              !.fee_taker_a = a.fee_taker_b, !.fee_taker_b = a.fee_taker_a,
              !.slip_bps_a = a.slip_bps_b, !.slip_bps_b = a.slip_bps_a]

\* The parts of an EvalResult that must not depend on the order.
OrderFree(ev) ==
    <<ev.high_fr_ex, ev.low_fr_ex, ev.fees_total_usdt, ev.entry_basis_cost_usdt,
      ev.be_4h, ev.be_per_int, ev.apr_gross_pct, ev.apr_net_pct, ev.n_min, ev.decision>>

\* C22: evaluate_candidate(ex_a, ex_b) and evaluate_candidate(ex_b, ex_a)
\* yield the same short and long exchange, costs, break-even, APRs, n_min and
\* decision, for all funding rates: whenever one order returns a result the
\* other returns one that agrees with it, and with equal rates (a positive
\* interval and notional) a result is returned.
C22_OrderOfExchangesIrrelevant ==
    /\ EvalReturned =>
          LET other == evaluate_candidate(Swapped(out.args))
          IN  /\ other.kind = "ok"
              /\ OrderFree(other.val) = OrderFree(out.res.val)
    /\ (EvalCalled /\ AdaptersFound /\ LiveRatesEqual /\ RGt(out.args.interval_h, Zero)
        /\ RGt(out.args.side_notional_usdt, Zero)) =>
          out.res.kind = "ok"

(***************************************************************************)
(* C23                                                                     *)
(***************************************************************************)
\* C23: the list generate_dynamic_lot_options returns is never empty and
\* strictly increasing, and each of its lots is a positive multiple of step
\* that does not exceed min(bybit_avail, bitget_avail) - buffer_usdt.
C23_LotsFundable ==
    lots.args # <<>> =>
        LET a == lots.args
            options == lots.res
            fundable == RSub(RMin(a.bybit_avail, a.bitget_avail), a.buffer_usdt)
        IN  /\ options # <<>>
            /\ \A k \in 1..Len(options) :
                  /\ options[k] > 0
                  /\ options[k] % a.step = 0
                  /\ RLe(R(options[k], 1), fundable)
            /\ \A k \in 1..(Len(options) - 1) : options[k] < options[k + 1]

=============================================================================
